---- MODULE Spec2Model ----
(***************************************************************************)
(* Model of scripts/run_housekeeper_self_check.py: the readiness prober    *)
(* (ensure_health), the self-check invocation and the verdict resolution   *)
(* (main), with the HTTP helper (request_json) and the JSON helper         *)
(* (parse_json_or_none).                                                   *)
(*                                                                         *)
(* A response body is a sequence of JSON lexemes (whitespace dropped); the *)
(* JSON decoder, the pretty-printer and Python's truthiness and str() are  *)
(* operators over those lexemes and over tagged JSON values.               *)
(*                                                                         *)
(* Specifications: Spec (one run), SpecLive (one run, fair), SpecJudge    *)
(* (one health attempt against every kind of answer), SpecTwoRuns (two    *)
(* independent runs) and SpecRepeat (the same run twice against an        *)
(* unchanged runtime).                                                     *)
(***************************************************************************)
EXTENDS Integers, Sequences, FiniteSets, TLC

(***************************************************************************)
(* JSON lexemes                                                            *)
(***************************************************************************)
P(c) == [k |-> "p", c |-> c]
Lit(c) == [k |-> "lit", c |-> c]
Num(n) == [k |-> "num", n |-> n]
Str(s) == [k |-> "str", s |-> s]
Bad(c) == [k |-> "bad", c |-> c]
InvalidByte == [k |-> "byte", c |-> "\\xff"]
ReplacementChar == Bad("\\ufffd")

(***************************************************************************)
(* Python values produced by json.loads                                    *)
(***************************************************************************)
PyNone == [t |-> "null"]
PyBool(b) == [t |-> "bool", b |-> b]
PyInt(n) == [t |-> "num", n |-> n]
PyStr(s) == [t |-> "str", s |-> s]
PyList(items) == [t |-> "arr", items |-> items]
PyDict(m) == [t |-> "obj", m |-> m]

IsDict(v) == v.t = "obj"
IsList(v) == v.t = "arr"
IsTrue(v) == v.t = "bool" /\ v.b = TRUE

\* bool(v): Python truthiness
Truthy(v) ==
    CASE v.t = "null" -> FALSE
      [] v.t = "bool" -> v.b
      [] v.t = "num" -> v.n # 0
      [] v.t = "str" -> v.s # ""
      [] v.t = "arr" -> v.items # <<>>
      [] v.t = "obj" -> v.m # <<>>

\* dict.get(key): the value, or None when the key is absent
RECURSIVE GetFrom(_, _)
GetFrom(m, key) ==
    IF m = <<>> THEN PyNone
    ELSE IF Head(m).key = key THEN Head(m).val
    ELSE GetFrom(Tail(m), key)

Get(d, key) == GetFrom(d.m, key)

\* d[key] = val: a repeated key keeps its first position and takes the last value
SetKey(m, key, val) ==
    IF \E i \in DOMAIN m : m[i].key = key
    THEN [i \in DOMAIN m |-> IF m[i].key = key THEN [key |-> key, val |-> val] ELSE m[i]]
    ELSE Append(m, [key |-> key, val |-> val])

(***************************************************************************)
(* json.loads: recursive descent over the lexemes                          *)
(***************************************************************************)
ParseFail == [ok |-> FALSE, val |-> PyNone, rest |-> <<>>]
ParseOk(v, rest) == [ok |-> TRUE, val |-> v, rest |-> rest]

LitVal(c) ==
    CASE c = "true" -> PyBool(TRUE)
      [] c = "false" -> PyBool(FALSE)
      [] OTHER -> PyNone

IsP(tok, c) == tok.k = "p" /\ tok.c = c

RECURSIVE ParseValue(_)
RECURSIVE ParseElems(_, _)
RECURSIVE ParseMembers(_, _)

ParseValue(toks) ==
    IF toks = <<>> THEN ParseFail
    ELSE LET h == Head(toks)
             r == Tail(toks)
         IN  CASE h.k = "lit" -> ParseOk(LitVal(h.c), r)
               [] h.k = "num" -> ParseOk(PyInt(h.n), r)
               [] h.k = "str" -> ParseOk(PyStr(h.s), r)
               [] IsP(h, "[") ->
                    IF r # <<>> /\ IsP(Head(r), "]")
                    THEN ParseOk(PyList(<<>>), Tail(r))
                    ELSE ParseElems(r, <<>>)
               [] IsP(h, "{") ->
                    IF r # <<>> /\ IsP(Head(r), "}")
                    THEN ParseOk(PyDict(<<>>), Tail(r))
                    ELSE ParseMembers(r, <<>>)
               [] OTHER -> ParseFail

ParseElems(toks, acc) ==
    LET e == ParseValue(toks)
    IN  IF ~e.ok \/ e.rest = <<>> THEN ParseFail
        ELSE IF IsP(Head(e.rest), ",") THEN ParseElems(Tail(e.rest), Append(acc, e.val))
        ELSE IF IsP(Head(e.rest), "]") THEN ParseOk(PyList(Append(acc, e.val)), Tail(e.rest))
        ELSE ParseFail

ParseMembers(toks, acc) ==
    IF Len(toks) < 2 \/ toks[1].k # "str" \/ ~IsP(toks[2], ":") THEN ParseFail
    ELSE LET e == ParseValue(Tail(Tail(toks)))
             m == SetKey(acc, toks[1].s, e.val)
         IN  IF ~e.ok \/ e.rest = <<>> THEN ParseFail
             ELSE IF IsP(Head(e.rest), ",") THEN ParseMembers(Tail(e.rest), m)
             ELSE IF IsP(Head(e.rest), "}") THEN ParseOk(PyDict(m), Tail(e.rest))
             ELSE ParseFail

\* variant: decodes the first value and ignores what follows it
JsonLoadsPrefix(raw) ==
    LET e == ParseValue(raw)
    IN  IF e.ok THEN e ELSE ParseFail

\* json.loads(raw): the value, or JSONDecodeError (ok = FALSE); trailing
\* lexemes after the value are "Extra data"
JsonLoads(raw) ==
    LET e == ParseValue(raw)
    IN  IF e.ok /\ e.rest = <<>> THEN e ELSE ParseFail

parse_json_or_none(raw) ==
    LET e == JsonLoads(raw)
    IN  IF ~e.ok THEN PyNone
        ELSE IF IsDict(e.val) THEN e.val ELSE PyNone

(***************************************************************************)
(* json.dumps(body, ensure_ascii=False, indent=2)                          *)
(***************************************************************************)
\* variant: indent=4
RECURSIVE IndentFour(_)
IndentFour(n) == IF n = 0 THEN "" ELSE "    " \o IndentFour(n - 1)

RECURSIVE Indent(_)
Indent(n) == IF n = 0 THEN "" ELSE "  " \o Indent(n - 1)

RECURSIVE Dumps(_, _)
RECURSIVE DumpItems(_, _)
RECURSIVE DumpMembers(_, _)

Dumps(v, level) ==
    CASE v.t = "null" -> "null"
      [] v.t = "bool" -> IF v.b THEN "true" ELSE "false"
      [] v.t = "num" -> ToString(v.n)
      [] v.t = "str" -> "\"" \o v.s \o "\""
      [] v.t = "arr" ->
           IF v.items = <<>> THEN "[]"
           ELSE "[\n" \o DumpItems(v.items, level + 1) \o "\n" \o Indent(level) \o "]"
      [] v.t = "obj" ->
           IF v.m = <<>> THEN "{}"
           ELSE "{\n" \o DumpMembers(v.m, level + 1) \o "\n" \o Indent(level) \o "}"

DumpItems(items, level) ==
    Indent(level) \o Dumps(Head(items), level)
        \o (IF Len(items) = 1 THEN "" ELSE ",\n" \o DumpItems(Tail(items), level))

DumpMembers(m, level) ==
    Indent(level) \o "\"" \o Head(m).key \o "\": " \o Dumps(Head(m).val, level)
        \o (IF Len(m) = 1 THEN "" ELSE ",\n" \o DumpMembers(Tail(m), level))

json_dumps(body) == Dumps(body, 0)

\* str(v) of a scalar (the repr of a list or a dict is not modelled)
PyStrOf(v) ==
    CASE v.t = "str" -> v.s
      [] v.t = "num" -> ToString(v.n)
      [] v.t = "bool" -> IF v.b THEN "True" ELSE "False"
      [] v.t = "null" -> "None"

\* bytes.decode("utf-8", errors="replace")
Decode(bytes) ==
    [i \in DOMAIN bytes |-> IF bytes[i] = InvalidByte THEN ReplacementChar ELSE bytes[i]]

(***************************************************************************)
(* Bounds and program constants                                            *)
(***************************************************************************)
MaxRetries == 3
SelfCheckTimeout == 200
ExitReady == 0
ExitChecksFailed == 1
ExitNotReady == 10
ExitEndpoint == 20

\* times are in tenths of a second
\* --health-retries is any int; zero and a negative count are covered by -1 and 0
RetryValues == -1 .. MaxRetries
DelayValues == {0, 7}
TimeoutValues == {20}
ArgTokens == {"", "cli"}
EnvTokens == {"", "env"}

(***************************************************************************)
(* What the runtime can answer                                             *)
(***************************************************************************)
Http(status, bytes) == [kind |-> "http", status |-> status, bytes |-> bytes]
TransportError(exc) == [kind |-> "error", exc |-> exc]

Member(key, val) == <<Str(key), P(":")>> \o val
RECURSIVE Joined(_)
Joined(parts) ==
    IF parts = <<>> THEN <<>>
    ELSE IF Len(parts) = 1 THEN Head(parts)
    ELSE Head(parts) \o <<P(",")>> \o Joined(Tail(parts))
Obj(members) == <<P("{")>> \o Joined(members) \o <<P("}")>>
Arr(items) == <<P("[")>> \o Joined(items) \o <<P("]")>>
T == <<Lit("true")>>
F == <<Lit("false")>>

OkTrue == Obj(<<Member("ok", T)>>)
OkFalse == Obj(<<Member("ok", F)>>)
OkOne == Obj(<<Member("ok", <<Num(1)>>)>>)
NotJson == <<Bad("not"), Bad("json")>>
ArrOkTrue == Arr(<<OkTrue>>)

HealthReplies ==
    { Http(200, OkTrue), Http(200, OkFalse), Http(200, OkOne), Http(200, NotJson),
      Http(200, ArrOkTrue), Http(202, OkTrue), Http(503, OkTrue),
      TransportError("URLError"), TransportError("timeout") }

DiskFail == Obj(<<Member("name", <<Str("disk")>>), Member("passed", F),
                  Member("detail", <<Str("low space")>>)>>)
MemPass == Obj(<<Member("name", <<Str("mem")>>), Member("passed", T)>>)
NetNoPassed == Obj(<<Member("name", <<Str("net")>>)>>)
NoNameFail == Obj(<<Member("passed", <<Num(1)>>), Member("detail", <<Str("odd")>>)>>)
EmptyNameFail == Obj(<<Member("name", <<Str("")>>), Member("passed", F)>>)

PassedReport == OkTrue
PassedWithFailingCheck == Obj(<<Member("ok", T), Member("checks", Arr(<<DiskFail>>))>>)
PassedWithChecks == Obj(<<Member("ok", T), Member("checks", Arr(<<MemPass>>))>>)
FailedReport == Obj(<<Member("ok", F), Member("checks", Arr(<<DiskFail, MemPass>>))>>)
FailedNoFailingEntry == Obj(<<Member("ok", F), Member("checks", Arr(<<MemPass>>))>>)
MixedReport ==
    Obj(<<Member("checks", Arr(<<NetNoPassed, <<Num(7)>>, EmptyNameFail, MemPass,
                                 NoNameFail, DiskFail>>))>>)
ChecksNotAList == Obj(<<Member("ok", <<Num(1)>>), Member("checks", Obj(<<Member("disk", F)>>))>>)
EmptyObject == Obj(<<>>)
JsonString == <<Str("ok")>>
JsonNumber == <<Num(1)>>
JsonNull == <<Lit("null")>>
EmptyBody == <<>>
BadUtf8 == OkTrue \o <<InvalidByte>>
ExtraData == OkTrue \o <<P("}")>>

SelfCheckBodies ==
    { PassedReport, PassedWithFailingCheck, PassedWithChecks, FailedReport,
      FailedNoFailingEntry, MixedReport, ChecksNotAList, OkFalse, EmptyObject,
      NotJson, ArrOkTrue, JsonString, JsonNumber, JsonNull, EmptyBody, BadUtf8,
      ExtraData }

SelfCheckStatuses == {200, 300, 400, 503}

SelfCheckReplies ==
    { Http(s, b) : s \in SelfCheckStatuses, b \in SelfCheckBodies }
        \cup { TransportError("URLError"), TransportError("timeout") }

\* what the runtime answers to the next request: any of the candidates, or,
\* when an earlier invocation was answered by the same unchanged runtime, what
\* it answered to the same request then
ServiceAnswers(candidates, answered, before) ==
    IF before # <<>> /\ "replies" \in DOMAIN before[1]
           /\ Len(answered) < Len(before[1].replies)
    THEN {before[1].replies[Len(answered) + 1]}
    ELSE candidates

(***************************************************************************)
(* request_json: returns (status, raw) for every HTTP response, 2xx from   *)
(* the try branch and anything else from the HTTPError handler; any other  *)
(* exception of urlopen propagates to the caller                           *)
(***************************************************************************)
Returned(status, raw) == [raised |-> FALSE, status |-> status, raw |-> raw]
Raised(exc) == [raised |-> TRUE, exc |-> exc]

request_json(reply) ==
    IF reply.kind = "http"
    THEN IF reply.status >= 200 /\ reply.status < 300
         THEN Returned(reply.status, Decode(reply.bytes))
         ELSE Returned(reply.status, Decode(reply.bytes))
    ELSE Raised(reply.exc)

(***************************************************************************)
(* State                                                                   *)
(***************************************************************************)
VARIABLES
    args,        \* the parsed command line
    environ,     \* BLAB_HOUSEKEEPER_TOKEN
    pc,          \* position of the run
    headers,     \* the header mapping built by main
    attempt,     \* loop variable of ensure_health
    requests,    \* every request handed to urlopen, in order
    replies,     \* what the runtime answered to each of them
    sleeps,      \* every time.sleep argument, in order
    status,      \* main's status
    raw,         \* main's raw
    body,        \* main's body
    output,      \* everything written to stdout and stderr, in order
    exit_code,   \* <<>> while the process runs, then <<its exit status>>
    previous     \* <<>> in a first invocation, else <<what the one before did>>

vars == <<args, environ, pc, headers, attempt, requests, replies, sleeps,
          status, raw, body, output, exit_code, previous>>

Line(stream, kind, text) == [stream |-> stream, kind |-> kind, text |-> text]
RawLine(r) == [stream |-> "stdout", kind |-> "raw", raw |-> r]

HealthUrl == "/housekeeper/health"
SelfCheckUrl == "/housekeeper/self-check"
Request(url, hdrs, timeout) ==
    [method |-> "GET", url |-> url, headers |-> hdrs, timeout |-> timeout]

Init ==
    /\ args \in [token : ArgTokens, health_retries : RetryValues,
                 health_timeout : TimeoutValues, retry_delay : DelayValues]
    /\ environ \in EnvTokens
    /\ pc = "main"
    /\ headers = {}
    /\ attempt = 0
    /\ requests = <<>>
    /\ replies = <<>>
    /\ sleeps = <<>>
    /\ status = 0
    /\ raw = <<>>
    /\ body = PyNone
    /\ output = <<>>
    /\ exit_code = <<>>
    /\ previous = <<>>

\* sys.exit(code)
Exit(code) ==
    /\ pc' = "exited"
    /\ exit_code' = <<code>>

\* an exception nobody catches: the interpreter prints the traceback to
\* stderr and the process ends with status 1
Uncaught(exc) ==
    /\ output' = Append(output, Line("stderr", "traceback", exc))
    /\ Exit(1)

\* variant: the environment wins over the command line
TokenEnvFirst == IF environ # "" THEN environ ELSE args.token

\* main, lines 61-69: token and headers, then the call of ensure_health
Token == IF args.token # "" THEN args.token ELSE environ

\* variant: readiness is remembered from the invocation before
BuildHeadersCachedReadiness ==
    /\ pc = "main"
    /\ headers' = IF Token # "" THEN {<<"Authorization", "Bearer " \o Token>>} ELSE {}
    /\ attempt' = 1
    /\ pc' = IF previous # <<>> /\ previous[1].exit_code \in {0, 20} THEN "self_check"
             ELSE "health_loop"
    /\ UNCHANGED <<args, environ, requests, replies, sleeps, status, raw, body,
                   output, exit_code>>
    /\ UNCHANGED previous

BuildHeaders ==
    /\ pc = "main"
    /\ headers' = IF Token # "" THEN {<<"Authorization", "Bearer " \o Token>>} ELSE {}
    /\ attempt' = 1
    /\ pc' = "health_loop"
    /\ UNCHANGED <<args, environ, requests, replies, sleeps, status, raw, body,
                   output, exit_code>>
    /\ UNCHANGED previous

\* variant: the first attempt is made whatever the count
HealthRequestAtLeastOnce ==
    /\ pc = "health_loop"
    /\ (attempt <= args.health_retries \/ attempt = 1)
    /\ requests' = Append(requests, Request(HealthUrl, headers, args.health_timeout))
    /\ pc' = "health_wait"
    /\ UNCHANGED <<args, environ, headers, attempt, replies, sleeps, status, raw,
                   body, output, exit_code>>
    /\ UNCHANGED previous

\* variant: range(1, retries + 2)
HealthRequestOffByOne ==
    /\ pc = "health_loop"
    /\ attempt <= args.health_retries + 1
    /\ requests' = Append(requests, Request(HealthUrl, headers, args.health_timeout))
    /\ pc' = "health_wait"
    /\ UNCHANGED <<args, environ, headers, attempt, replies, sleeps, status, raw,
                   body, output, exit_code>>
    /\ UNCHANGED previous

\* ensure_health, line 49: the request of this attempt goes out
HealthRequest ==
    /\ pc = "health_loop"
    /\ attempt <= args.health_retries
    /\ requests' = Append(requests, Request(HealthUrl, headers, args.health_timeout))
    /\ pc' = "health_wait"
    /\ UNCHANGED <<args, environ, headers, attempt, replies, sleeps, status, raw,
                   body, output, exit_code>>
    /\ UNCHANGED previous

\* variant: any truthy `ok` counts as ready
HealthOkTruthy(st, r) ==
    LET b == parse_json_or_none(r)
    IN  st = 200 /\ Truthy(b) /\ Truthy(Get(b, "ok"))

\* variant: `ok` is compared with the string "true"
HealthOkString(st, r) ==
    LET b == parse_json_or_none(r)
    IN  st = 200 /\ Truthy(b) /\ Get(b, "ok") = PyStr("true")

\* variant: any 2xx status counts
HealthOk2xx(st, r) ==
    LET b == parse_json_or_none(r)
    IN  st >= 200 /\ st < 300 /\ Truthy(b) /\ IsTrue(Get(b, "ok"))

\* ensure_health, line 51
HealthOk(st, r) ==
    LET b == parse_json_or_none(r)
    IN  st = 200 /\ Truthy(b) /\ IsTrue(Get(b, "ok"))

\* ensure_health, lines 49-53: the answer arrives and is judged
HealthResponse(reply) ==
    /\ pc = "health_wait"
    /\ replies' = Append(replies, reply)
    /\ LET res == request_json(reply)
       IN  IF res.raised
           THEN /\ Uncaught(res.exc)
                /\ UNCHANGED attempt
           ELSE /\ IF HealthOk(res.status, res.raw)
                   THEN pc' = "self_check" /\ UNCHANGED attempt
                   ELSE IF attempt < args.health_retries
                        THEN pc' = "sleep" /\ UNCHANGED attempt
                        ELSE pc' = "health_loop" /\ attempt' = attempt + 1
                /\ UNCHANGED <<output, exit_code>>
    /\ UNCHANGED <<args, environ, headers, requests, sleeps, status, raw, body>>
    /\ UNCHANGED previous

\* ensure_health, line 54, then the next iteration
Sleep ==
    /\ pc = "sleep"
    /\ sleeps' = Append(sleeps, args.retry_delay)
    /\ attempt' = attempt + 1
    /\ pc' = "health_loop"
    /\ UNCHANGED <<args, environ, headers, requests, replies, status, raw, body,
                   output, exit_code>>
    /\ UNCHANGED previous

\* variant: the readiness failure leaves with the generic status
HealthFailedExit1 ==
    /\ pc = "health_loop"
    /\ attempt > args.health_retries
    /\ output' = Append(output, Line("stderr", "diagnostic",
                                     "health check failed: runtime not ready"))
    /\ Exit(1)
    /\ UNCHANGED <<args, environ, headers, attempt, requests, replies, sleeps,
                   status, raw, body>>
    /\ UNCHANGED previous

\* ensure_health, lines 56-57: the loop ran out
HealthFailed ==
    /\ pc = "health_loop"
    /\ attempt > args.health_retries
    /\ output' = Append(output, Line("stderr", "diagnostic",
                                     "health check failed: runtime not ready"))
    /\ Exit(ExitNotReady)
    /\ UNCHANGED <<args, environ, headers, attempt, requests, replies, sleeps,
                   status, raw, body>>
    /\ UNCHANGED previous

\* main, line 71: the one self-check request goes out
SelfCheckRequest ==
    /\ pc = "self_check"
    /\ requests' = Append(requests, Request(SelfCheckUrl, headers, SelfCheckTimeout))
    /\ pc' = "self_wait"
    /\ UNCHANGED <<args, environ, headers, attempt, replies, sleeps, status, raw,
                   body, output, exit_code>>
    /\ UNCHANGED previous

\* main, lines 71-72: the answer arrives and is decoded
SelfCheckResponse(reply) ==
    /\ pc = "self_wait"
    /\ replies' = Append(replies, reply)
    /\ LET res == request_json(reply)
       IN  IF res.raised
           THEN /\ Uncaught(res.exc)
                /\ UNCHANGED <<status, raw, body>>
           ELSE /\ status' = res.status
                /\ raw' = res.raw
                /\ body' = parse_json_or_none(res.raw)
                /\ pc' = "parsed"
                /\ UNCHANGED <<output, exit_code>>
    /\ UNCHANGED <<args, environ, headers, attempt, requests, sleeps>>
    /\ UNCHANGED previous

\* variant: the report is printed after the status gate let the run pass
ReportUnlessErrorStatus ==
    /\ pc = "parsed"
    /\ IF body = PyNone
       THEN /\ output' = output \o
                   <<RawLine(raw),
                     Line("stderr", "diagnostic", "self-check response is not valid JSON")>>
            /\ Exit(ExitEndpoint)
       ELSE /\ output' = IF status >= 400 THEN output
                         ELSE Append(output, Line("stdout", "report", json_dumps(body)))
            /\ pc' = "reported"
            /\ UNCHANGED exit_code
    /\ UNCHANGED <<args, environ, headers, attempt, requests, replies, sleeps,
                   status, raw, body>>
    /\ UNCHANGED previous

\* main, lines 74-79: the raw body and exit 20, or the pretty-printed report
Report ==
    /\ pc = "parsed"
    /\ IF body = PyNone
       THEN /\ output' = output \o
                   <<RawLine(raw),
                     Line("stderr", "diagnostic", "self-check response is not valid JSON")>>
            /\ Exit(ExitEndpoint)
       ELSE /\ output' = Append(output, Line("stdout", "report", json_dumps(body)))
            /\ pc' = "reported"
            /\ UNCHANGED exit_code
    /\ UNCHANGED <<args, environ, headers, attempt, requests, replies, sleeps,
                   status, raw, body>>
    /\ UNCHANGED previous

\* variant: only server errors are gated
StatusGateServerErrorsOnly ==
    /\ pc = "reported"
    /\ IF status >= 500
       THEN /\ output' = Append(output, Line("stderr", "diagnostic",
                             "self-check endpoint returned HTTP " \o ToString(status)))
            /\ Exit(ExitEndpoint)
       ELSE /\ pc' = "evaluated"
            /\ UNCHANGED <<output, exit_code>>
    /\ UNCHANGED <<args, environ, headers, attempt, requests, replies, sleeps,
                   status, raw, body>>
    /\ UNCHANGED previous

\* variant: `status > 400`
StatusGateAbove400 ==
    /\ pc = "reported"
    /\ IF status > 400
       THEN /\ output' = Append(output, Line("stderr", "diagnostic",
                             "self-check endpoint returned HTTP " \o ToString(status)))
            /\ Exit(ExitEndpoint)
       ELSE /\ pc' = "evaluated"
            /\ UNCHANGED <<output, exit_code>>
    /\ UNCHANGED <<args, environ, headers, attempt, requests, replies, sleeps,
                   status, raw, body>>
    /\ UNCHANGED previous

\* main, lines 81-83
StatusGate ==
    /\ pc = "reported"
    /\ IF status >= 400
       THEN /\ output' = Append(output, Line("stderr", "diagnostic",
                             "self-check endpoint returned HTTP " \o ToString(status)))
            /\ Exit(ExitEndpoint)
       ELSE /\ pc' = "evaluated"
            /\ UNCHANGED <<output, exit_code>>
    /\ UNCHANGED <<args, environ, headers, attempt, requests, replies, sleeps,
                   status, raw, body>>
    /\ UNCHANGED previous

\* variant: `not c.get("passed")`
IsFailedCheckFalsy(c) == IsDict(c) /\ ~Truthy(Get(c, "passed"))

\* main, line 90
IsFailedCheck(c) == IsDict(c) /\ ~IsTrue(Get(c, "passed"))

\* main, lines 92-94
FailedLine(item) ==
    LET name == IF Truthy(Get(item, "name")) THEN PyStrOf(Get(item, "name")) ELSE "unknown"
        detail == IF Truthy(Get(item, "detail")) THEN PyStrOf(Get(item, "detail")) ELSE ""
    IN  Line("stderr", "failed", "[FAILED] " \o name \o ": " \o detail)

\* main, lines 88-94
RECURSIVE FailedLines(_)
FailedLines(items) ==
    IF items = <<>> THEN <<>>
    ELSE (IF IsFailedCheck(Head(items)) THEN <<FailedLine(Head(items))>> ELSE <<>>)
             \o FailedLines(Tail(items))

ChecksReport(b) ==
    LET checks == Get(b, "checks")
    IN  IF IsList(checks) THEN FailedLines(checks.items) ELSE <<>>

\* variant: `if body.get("ok"):`
VerdictTruthy ==
    /\ pc = "evaluated"
    /\ IF Truthy(Get(body, "ok"))
       THEN /\ Exit(ExitReady)
            /\ UNCHANGED output
       ELSE /\ output' = output \o ChecksReport(body)
            /\ Exit(ExitChecksFailed)
    /\ UNCHANGED <<args, environ, headers, attempt, requests, replies, sleeps,
                   status, raw, body>>
    /\ UNCHANGED previous

\* main, lines 85-96
Verdict ==
    /\ pc = "evaluated"
    /\ IF IsTrue(Get(body, "ok"))
       THEN /\ Exit(ExitReady)
            /\ UNCHANGED output
       ELSE /\ output' = output \o ChecksReport(body)
            /\ Exit(ExitChecksFailed)
    /\ UNCHANGED <<args, environ, headers, attempt, requests, replies, sleeps,
                   status, raw, body>>
    /\ UNCHANGED previous

Next ==
    \/ BuildHeaders
    \/ HealthRequest
    \/ \E reply \in ServiceAnswers(HealthReplies, replies, previous) : HealthResponse(reply)
    \/ Sleep
    \/ HealthFailed
    \/ SelfCheckRequest
    \/ \E reply \in ServiceAnswers(SelfCheckReplies, replies, previous) : SelfCheckResponse(reply)
    \/ Report
    \/ StatusGate
    \/ Verdict

Spec == Init /\ [][Next]_vars

TypeOK ==
    /\ pc \in {"main", "health_loop", "health_wait", "sleep", "self_check",
               "self_wait", "parsed", "reported", "evaluated", "exited"}
    /\ exit_code \in {<<>>, <<0>>, <<1>>, <<10>>, <<20>>}
    /\ (pc = "exited") = (exit_code # <<>>)

(***************************************************************************)
(* Vocabulary of the properties: what a run did, read off its history      *)
(***************************************************************************)
R == args.health_retries

RECURSIVE CountUrl(_, _)
CountUrl(reqs, url) ==
    IF reqs = <<>> THEN 0
    ELSE (IF Head(reqs).url = url THEN 1 ELSE 0) + CountUrl(Tail(reqs), url)

HealthRequests == CountUrl(requests, HealthUrl)
SelfCheckRequests == CountUrl(requests, SelfCheckUrl)

\* the answered health attempts
HealthAttempts == {i \in DOMAIN replies : requests[i].url = HealthUrl}

\* the signals of the wire contract, listed reply by reply
ReadySignals == {Http(200, OkTrue)}
NonReadySignals ==
    { Http(200, OkFalse), Http(200, OkOne), Http(200, NotJson), Http(200, ArrOkTrue),
      Http(202, OkTrue), Http(503, OkTrue) }

Stderr == SelectSeq(output, LAMBDA l : l.stream = "stderr")
Stdout == SelectSeq(output, LAMBDA l : l.stream = "stdout")
NotReadyDiagnostic ==
    Line("stderr", "diagnostic", "health check failed: runtime not ready")

Exited == pc = "exited"

\* C1: for R >= 1, when each of the R health attempts gave a non-ready
\* signal, exactly R health requests were issued, no self-check request was
\* issued, and the run can only end with the readiness diagnostic on stderr
\* and exit code 10; and in every run a self-check request was issued if and
\* only if some health attempt succeeded.
C1_NeverReadyExits10 ==
    /\ (R >= 1 /\ Cardinality(HealthAttempts) = R
            /\ \A i \in HealthAttempts : replies[i] \in NonReadySignals)
         => /\ HealthRequests = R
            /\ SelfCheckRequests = 0
            /\ pc \in {"health_loop", "exited"}
            /\ pc = "health_loop" => attempt > R
            /\ Exited => exit_code = <<10>> /\ output = <<NotReadyDiagnostic>>
    /\ pc # "self_check"
         => ((SelfCheckRequests >= 1) <=> (\E i \in HealthAttempts : replies[i] \in ReadySignals))

C1_Witness ==
    /\ Exited
    /\ R = 3
    /\ Cardinality(HealthAttempts) = 3
    /\ \A i \in HealthAttempts : replies[i] \in NonReadySignals
    /\ exit_code = <<10>>

\* C2: when the k-th health attempt is the first ready one, exactly k health
\* requests are issued, the request after it is the self-check request, and
\* the self-check endpoint is requested exactly once.
C2_FirstReadyStopsProbing ==
    \A k \in HealthAttempts :
        (replies[k] \in ReadySignals /\ \A j \in 1 .. (k - 1) : replies[j] \notin ReadySignals)
          => /\ k <= R
             /\ HealthRequests = k
             /\ \A i \in DOMAIN requests : i > k => requests[i].url = SelfCheckUrl
             /\ SelfCheckRequests = (IF pc = "self_check" THEN 0 ELSE 1)

C2_Witness ==
    /\ Exited
    /\ R = 3
    /\ Len(requests) = 3
    /\ replies[1] \in NonReadySignals
    /\ replies[2] \in ReadySignals
    /\ requests[3].url = SelfCheckUrl

\* the last reply, and which request it answers
LastReply == replies[Len(replies)]
LastAnswered == requests[Len(replies)]
HealthAnswered == replies # <<>> /\ LastAnswered.url = HealthUrl
SelfCheckAnswered == replies # <<>> /\ LastAnswered.url = SelfCheckUrl

\* C3: a health attempt that ends in a transport error or a timeout is a
\* failed attempt: with attempts remaining the prober goes on to sleep and
\* retry, and after the R-th attempt the run ends with the readiness
\* diagnostic and exit code 10.
C3_TransportErrorIsFailedAttempt ==
    (HealthAnswered /\ LastReply.kind = "error")
      => IF Len(replies) < R
         THEN pc \in {"sleep", "health_loop", "health_wait"}
         ELSE \/ pc = "health_loop" /\ attempt > R
              \/ Exited /\ exit_code = <<10>> /\ Stderr = <<NotReadyDiagnostic>>

\* C4: a transport failure or timeout of the self-check request ends the run
\* with a diagnostic on stderr and exit code 20, without a second self-check
\* request.
C4_SelfCheckTransportErrorExits20 ==
    (SelfCheckAnswered /\ LastReply.kind = "error")
      => /\ Exited
         /\ exit_code = <<20>>
         /\ Stderr # <<>>
         /\ SelfCheckRequests = 1

\* C5: a self-check response with status >= 400 ends the run with exit code
\* 20 whatever its body: the verdict from `ok` is never reached, the exit
\* code is never 0 or 1, and no [FAILED] line is printed.
C5_ErrorStatusExits20 ==
    (SelfCheckAnswered /\ LastReply.kind = "http" /\ LastReply.status >= 400)
      => /\ pc \in {"parsed", "reported", "exited"}
         /\ Exited => exit_code = <<20>>
         /\ \A i \in DOMAIN output : output[i].kind # "failed"

C5_Witness ==
    /\ Exited
    /\ SelfCheckAnswered
    /\ LastReply = Http(400, PassedReport)
    /\ exit_code = <<20>>

\* the self-check bodies of the model, sorted by what they decode to
OkTrueObjects == {PassedReport, PassedWithFailingCheck, PassedWithChecks}
OkNotTrueObjects ==
    {FailedReport, FailedNoFailingEntry, MixedReport, ChecksNotAList, OkFalse, EmptyObject}
NonObjectBodies ==
    {NotJson, ArrOkTrue, JsonString, JsonNumber, JsonNull, EmptyBody, BadUtf8, ExtraData}
SelfCheckHttp == SelfCheckAnswered /\ LastReply.kind = "http"

\* the 2-space pretty-printed form of each ok-true body
PrettyPrinted(bytes) ==
    CASE bytes = PassedReport -> "{\n  \"ok\": true\n}"
      [] bytes = PassedWithFailingCheck ->
           "{\n  \"ok\": true,\n  \"checks\": [\n    {\n      \"name\": \"disk\",\n      \"passed\": false,\n      \"detail\": \"low space\"\n    }\n  ]\n}"
      [] bytes = PassedWithChecks ->
           "{\n  \"ok\": true,\n  \"checks\": [\n    {\n      \"name\": \"mem\",\n      \"passed\": true\n    }\n  ]\n}"

\* C6: after readiness, a self-check response of status 200 whose body is an
\* object with `ok` literally true makes the run print exactly that object,
\* pretty-printed, on stdout, nothing on stderr, and exit 0.
C6_PassedExits0 ==
    (SelfCheckHttp /\ LastReply.status = 200 /\ LastReply.bytes \in OkTrueObjects)
      => /\ pc \in {"parsed", "reported", "evaluated", "exited"}
         /\ Stderr = <<>>
         /\ Exited => /\ exit_code = <<0>>
                      /\ output = <<Line("stdout", "report", PrettyPrinted(LastReply.bytes))>>

C6_Witness ==
    /\ Exited
    /\ SelfCheckHttp
    /\ LastReply = Http(200, PassedWithChecks)
    /\ exit_code = <<0>>
    /\ Len(output) = 1

\* the [FAILED] lines each body with `ok` not true must produce, in order
ExpectedFailedLines(bytes) ==
    CASE bytes = FailedReport -> <<"[FAILED] disk: low space">>
      [] bytes = MixedReport ->
           <<"[FAILED] net: ", "[FAILED] unknown: ", "[FAILED] unknown: odd",
             "[FAILED] disk: low space">>
      [] OTHER -> <<>>

StderrText == [i \in DOMAIN Stderr |-> Stderr[i].text]

\* C7: a self-check response of status < 400 whose body is an object with
\* `ok` not literally true ends the run with exit code 1, and stderr holds
\* exactly one [FAILED] line per object entry of `checks` whose `passed` is
\* not literally true, in order, with "unknown" for a missing or empty name
\* and "" for a missing detail; no line when `checks` is absent or not a list.
C7_ChecksFailedExits1 ==
    (Exited /\ SelfCheckHttp /\ LastReply.status < 400 /\ LastReply.bytes \in OkNotTrueObjects)
      => /\ exit_code = <<1>>
         /\ StderrText = ExpectedFailedLines(LastReply.bytes)
         /\ \A i \in DOMAIN Stderr : Stderr[i].kind = "failed"

C7_Witness ==
    /\ Exited
    /\ SelfCheckHttp
    /\ LastReply = Http(200, MixedReport)
    /\ exit_code = <<1>>
    /\ Len(Stderr) = 4

\* the text print(raw) shows for a body: the body itself, an undecodable
\* byte shown as the replacement character
PrintedRaw(bytes) == IF bytes = BadUtf8 THEN OkTrue \o <<ReplacementChar>> ELSE bytes

\* C8: a self-check body that is not JSON, or is JSON but not an object,
\* makes the run print the raw body on stdout and a diagnostic on stderr and
\* exit 20, for every status; no report and no [FAILED] line is printed.
C8_InvalidResponseExits20 ==
    (SelfCheckHttp /\ LastReply.bytes \in NonObjectBodies)
      => /\ pc \in {"parsed", "exited"}
         /\ Exited => /\ exit_code = <<20>>
                      /\ output = <<RawLine(PrintedRaw(LastReply.bytes)),
                                    Line("stderr", "diagnostic",
                                         "self-check response is not valid JSON")>>

C8_Witness ==
    /\ Exited
    /\ SelfCheckHttp
    /\ LastReply = Http(200, ArrOkTrue)
    /\ exit_code = <<20>>
    /\ Len(output) = 2

\* C9: a run that ends with exit code 1 had a ready health attempt and a
\* self-check response of status < 400 whose body is an object with `ok` not
\* literally true; no transport failure ends a run with exit code 1.
C9_Exit1OnlyChecksFailed ==
    exit_code = <<1>>
      => /\ \E i \in HealthAttempts : replies[i] \in ReadySignals
         /\ SelfCheckHttp
         /\ LastReply.status < 400
         /\ LastReply.bytes \in OkNotTrueObjects

\* the bodies whose `checks` hold an entry with `passed` not literally true
BodiesWithFailingCheck == {PassedWithFailingCheck, FailedReport, MixedReport}

\* C10 as stated: a run that ends with exit code 0 received no `checks` entry
\* whose `passed` is not literally true.
C10_Exit0NoFailingCheck ==
    exit_code = <<0>> => ~(SelfCheckHttp /\ LastReply.bytes \in BodiesWithFailingCheck)

\* C10 as amended: a run that ends with exit code 0 received a self-check
\* response of status < 400 whose body is an object with `ok` literally
\* true; the entries of `checks` play no part.
C10_Exit0MeansOkTrue ==
    exit_code = <<0>>
      => /\ SelfCheckHttp
         /\ LastReply.status < 400
         /\ LastReply.bytes \in OkTrueObjects

C10_Witness ==
    /\ exit_code = <<0>>
    /\ SelfCheckHttp
    /\ LastReply = Http(200, PassedWithFailingCheck)

(***************************************************************************)
(* Two invocations, one after the other                                    *)
(***************************************************************************)
TwoRunRetries == 2

Verdicts ==
    {"Ready-and-Passed", "Readiness-Timeout", "Invalid-Response", "Checks-Failed",
     "Endpoint-Error"}

\* the verdict a finished run resolved, read off what the runtime answered;
\* a run cut short by an exception of urlopen resolved none
RunVerdict ==
    IF replies # <<>> /\ LastReply.kind = "error" THEN "none"
    ELSE IF SelfCheckHttp
    THEN IF LastReply.bytes \in NonObjectBodies THEN "Invalid-Response"
         ELSE IF LastReply.status >= 400 THEN "Endpoint-Error"
         ELSE IF LastReply.bytes \in OkTrueObjects THEN "Ready-and-Passed"
         ELSE "Checks-Failed"
    ELSE "Readiness-Timeout"

\* command lines without a token and without a delay
BareArgs ==
    [token : {""}, health_retries : -1 .. TwoRunRetries,
     health_timeout : TimeoutValues, retry_delay : {0}]

\* a new process starts from nothing: no file, no cache, only its command
\* line and its environment
FreshProcess(a, e) ==
    /\ args' = a
    /\ environ' = e
    /\ pc' = "main"
    /\ headers' = {}
    /\ attempt' = 0
    /\ requests' = <<>>
    /\ replies' = <<>>
    /\ sleeps' = <<>>
    /\ status' = 0
    /\ raw' = <<>>
    /\ body' = PyNone
    /\ output' = <<>>
    /\ exit_code' = <<>>

\* the script is invoked a second time, with any command line
StartAgain ==
    /\ pc = "exited"
    /\ previous = <<>>
    /\ previous' = <<[verdict |-> RunVerdict, exit_code |-> exit_code[1]]>>
    /\ \E a \in BareArgs : FreshProcess(a, "")

InitTwoRuns == Init /\ args \in BareArgs /\ environ = ""

NextTwoRuns == Next \/ StartAgain

SpecTwoRuns == InitTwoRuns /\ [][NextTwoRuns]_vars

OkTrueAndMore == Obj(<<Member("ok", T), Member("uptime", <<Num(1)>>)>>)
OkStringTrue == Obj(<<Member("ok", <<Str("true")>>)>>)
OkNull == Obj(<<Member("ok", <<Lit("null")>>)>>)
NoOkKey == Obj(<<Member("status", <<Str("ok")>>)>>)
BareTrue == <<Lit("true")>>

JudgeBodies ==
    { OkTrue, OkTrueAndMore, OkFalse, OkOne, OkStringTrue, OkNull, NoOkKey, EmptyObject,
      NotJson, ArrOkTrue, JsonString, BareTrue, EmptyBody, ExtraData, BadUtf8 }

JudgeStatuses == {200, 201, 202, 300, 400, 404, 503}

JudgeReplies ==
    { Http(s, b) : s \in JudgeStatuses, b \in JudgeBodies }
        \cup { TransportError("URLError"), TransportError("timeout") }

InitJudge == Init /\ args \in BareArgs /\ args.health_retries = 1 /\ environ = ""

NextJudge ==
    \/ BuildHeaders
    \/ HealthRequest
    \/ \E reply \in JudgeReplies : HealthResponse(reply)
    \/ HealthFailed
    \/ SelfCheckRequest

SpecJudge == InitJudge /\ [][NextJudge]_vars

\* the bodies of JudgeBodies that are a JSON object whose `ok` is the boolean true
OkTrueJudgeBodies == {OkTrue, OkTrueAndMore}

JudgedReady == pc \in {"self_check", "self_wait"}

\* C12: a health attempt is judged successful exactly when the status is 200
\* and the body is a JSON object whose `ok` is the boolean true; a 2xx status
\* other than 200, a non-object body, and `ok` missing, false, 1 or "true"
\* are all failed attempts.
C12_HealthJudgement ==
    HealthAnswered
      => /\ JudgedReady <=> /\ LastReply.kind = "http"
                            /\ LastReply.status = 200
                            /\ LastReply.bytes \in OkTrueJudgeBodies
         /\ LastReply \in { Http(202, OkTrue), Http(201, OkTrue), Http(200, ArrOkTrue),
                            Http(200, BareTrue), Http(200, NoOkKey), Http(200, EmptyObject),
                            Http(200, OkFalse), Http(200, OkOne), Http(200, OkStringTrue) }
              => ~JudgedReady

C12_Witness ==
    /\ HealthAnswered
    /\ LastReply = Http(200, OkStringTrue)
    /\ Exited
    /\ exit_code = <<10>>

\* the header mapping the configuration calls for
ExpectedHeaders ==
    CASE args.token = "cli" -> {<<"Authorization", "Bearer cli">>}
      [] args.token = "" /\ environ = "env" -> {<<"Authorization", "Bearer env">>}
      [] OTHER -> {}

\* C13: every request of a run, health or self-check, carries the same
\* headers: `Authorization: Bearer <token>` when the token (command line,
\* else environment) is non-empty, and no header when it is empty.
C13_SameHeaders ==
    \A i \in DOMAIN requests : requests[i].headers = ExpectedHeaders

C13_Witness ==
    /\ args.token = ""
    /\ environ = "env"
    /\ Len(requests) = 3
    /\ requests[2].url = HealthUrl
    /\ requests[3].url = SelfCheckUrl
    /\ requests[3].headers = {<<"Authorization", "Bearer env">>}

\* C14: a run that ends with a non-zero exit code has written the raw body,
\* the parsed body, a diagnostic line or a [FAILED] line before it ended.
C14_NonZeroExitPrinted ==
    (Exited /\ exit_code # <<0>>)
      => \E i \in DOMAIN output : output[i].kind \in {"raw", "report", "diagnostic", "failed"}

(***************************************************************************)
(* The same invocation twice against an unchanged runtime                  *)
(***************************************************************************)
\* the script is invoked again with the same command line and environment
RepeatRun ==
    /\ pc = "exited"
    /\ previous = <<>>
    /\ previous' = <<[args |-> args, environ |-> environ, requests |-> requests,
                      replies |-> replies, verdict |-> RunVerdict,
                      exit_code |-> exit_code[1]]>>
    /\ FreshProcess(args, environ)

InitRepeat == Init /\ args.health_retries <= TwoRunRetries

NextRepeat == Next \/ RepeatRun

SpecRepeat == InitRepeat /\ [][NextRepeat]_vars

IsPrefix(s, t) == Len(s) <= Len(t) /\ \A i \in DOMAIN s : s[i] = t[i]

FailedWithRemaining ==
    Cardinality({i \in HealthAttempts : i < R /\ replies[i] \notin ReadySignals})

\* C16: the prober has slept exactly once, for the configured delay, after
\* each failed health attempt that had attempts remaining (the sleep after
\* the latest one may still be ahead), and never otherwise: every sleep is
\* the same delay, and a health request follows the one before only after a
\* sleep.
C16_SleepSchedule ==
    /\ sleeps = [i \in 1 .. Len(sleeps) |-> args.retry_delay]
    /\ Len(sleeps) = FailedWithRemaining - (IF pc = "sleep" THEN 1 ELSE 0)
    /\ HealthRequests <= Len(sleeps) + 1

\* the 2-space pretty-printed form of every object body
PrettyPrintedObject(bytes) ==
    CASE bytes = FailedReport ->
           "{\n  \"ok\": false,\n  \"checks\": [\n    {\n      \"name\": \"disk\",\n      \"passed\": false,\n      \"detail\": \"low space\"\n    },\n    {\n      \"name\": \"mem\",\n      \"passed\": true\n    }\n  ]\n}"
      [] bytes = FailedNoFailingEntry ->
           "{\n  \"ok\": false,\n  \"checks\": [\n    {\n      \"name\": \"mem\",\n      \"passed\": true\n    }\n  ]\n}"
      [] bytes = MixedReport ->
           "{\n  \"checks\": [\n    {\n      \"name\": \"net\"\n    },\n    7,\n    {\n      \"name\": \"\",\n      \"passed\": false\n    },\n    {\n      \"name\": \"mem\",\n      \"passed\": true\n    },\n    {\n      \"passed\": 1,\n      \"detail\": \"odd\"\n    },\n    {\n      \"name\": \"disk\",\n      \"passed\": false,\n      \"detail\": \"low space\"\n    }\n  ]\n}"
      [] bytes = ChecksNotAList ->
           "{\n  \"ok\": 1,\n  \"checks\": {\n    \"disk\": false\n  }\n}"
      [] bytes = OkFalse ->
           "{\n  \"ok\": false\n}"
      [] bytes = EmptyObject ->
           "{}"
      [] OTHER -> PrettyPrinted(bytes)

ObjectBodies == OkTrueObjects \cup OkNotTrueObjects

\* C17: when the self-check body parses to an object, the pretty-printed
\* object is the first thing the run writes, on stdout, before the status
\* gate and the verdict; it is there in the runs that end with 0, with 1 and
\* with 20 by status, exactly once and ahead of every diagnostic line.
C17_ReportBeforeVerdict ==
    (SelfCheckHttp /\ LastReply.bytes \in ObjectBodies /\ pc \in {"reported", "evaluated", "exited"})
      => /\ output # <<>>
         /\ output[1] = Line("stdout", "report", PrettyPrintedObject(LastReply.bytes))
         /\ \A i \in DOMAIN output : i > 1 => output[i].stream = "stderr"
         /\ pc \in {"reported", "evaluated"} => Len(output) = 1

C17_Witness ==
    /\ Exited
    /\ SelfCheckHttp
    /\ LastReply = Http(503, FailedReport)
    /\ exit_code = <<20>>
    /\ Len(output) = 2

(***************************************************************************)
(* Progress: every blocking call returns or raises, every step is taken    *)
(***************************************************************************)
InitLive == Init /\ args.token = "" /\ environ = "" /\ args.retry_delay = 0

SpecLive == InitLive /\ [][Next]_vars /\ WF_vars(Next)

\* the states of the run, in the order of the state machine: Start,
\* Probing, Ready, Invoking, Parsed, Evaluated, terminal
Phase(p) ==
    CASE p = "main" -> 0
      [] p \in {"health_loop", "health_wait", "sleep"} -> 1
      [] p = "self_check" -> 2
      [] p = "self_wait" -> 3
      [] p \in {"parsed", "reported"} -> 4
      [] p = "evaluated" -> 5
      [] p = "exited" -> 6

\* C18: a run never goes back to a state of the state machine it has left,
\* issues at most R health requests and at most one self-check request with
\* at most one request unanswered at any time, and, every network call
\* returning or timing out, eventually ends with exit code 0, 1, 10 or 20.
C18_RunTerminates ==
    /\ [](/\ R >= 1 => HealthRequests <= R
          /\ SelfCheckRequests <= 1
          /\ Len(requests) - Len(replies) \in {0, 1}
          /\ Exited => exit_code \in {<<0>>, <<1>>, <<10>>, <<20>>})
    /\ [][Phase(pc') >= Phase(pc)]_vars
    /\ <>Exited

C18_Witness ==
    /\ Exited
    /\ R = 3
    /\ HealthRequests = 3
    /\ SelfCheckRequests = 1
    /\ exit_code = <<1>>
    /\ Len(output) > 1

Is2xx(st) == st >= 200 /\ st <= 299

\* C19 as stated: no run whose self-check response has a status outside
\* 200..299 ends with exit code 0.
C19_Non2xxNeverExits0 ==
    (SelfCheckHttp /\ ~Is2xx(LastReply.status)) => exit_code # <<0>>

\* C19 as amended: no run whose self-check response has a status of 400 or
\* more ends with exit code 0; a run that ends with exit code 0 on a status
\* outside 200..299 had a status below 400 and an object body with `ok` true.
C19_Only4xx5xxBarExit0 ==
    SelfCheckHttp
      => /\ LastReply.status >= 400 => exit_code # <<0>>
         /\ (exit_code = <<0>> /\ ~Is2xx(LastReply.status))
              => LastReply.status < 400 /\ LastReply.bytes \in OkTrueObjects
         /\ (Exited /\ LastReply.status < 400 /\ LastReply.bytes \in OkTrueObjects)
              => exit_code = <<0>>

C19_Witness ==
    /\ Exited
    /\ SelfCheckHttp
    /\ LastReply = Http(300, PassedReport)
    /\ exit_code = <<0>>

\* C20: with a health-retry count of zero or less the prober issues no
\* request at all and never sleeps; the run can only end with the readiness
\* diagnostic and exit code 10.
C20_NoRetriesNoRequest ==
    R <= 0
      => /\ requests = <<>>
         /\ sleeps = <<>>
         /\ pc \in {"main", "health_loop", "exited"}
         /\ Exited => exit_code = <<10>> /\ output = <<NotReadyDiagnostic>>

C20_Witness ==
    /\ R = -1
    /\ Exited
    /\ exit_code = <<10>>
    /\ requests = <<>>
====
